---------------------------- MODULE Spec2Model ----------------------------
(***************************************************************************)
(* A model of segmentation_models/utils/functional.py: the metric and loss *)
(* functions iou_score, f_score, categorical_crossentropy,                 *)
(* bianary_crossentropy, categorical_focal_loss and focal_loss.            *)
(*                                                                         *)
(* Tensor entries are exact rationals <<n, d>> (floating-point rounding is *)
(* not modelled).  A tensor is a record [shape, data] whose data maps each *)
(* index tuple to its entry; the backend's operations (sum over axes,      *)
(* mean, greater, cast, clip, elementwise arithmetic with broadcasting)    *)
(* are operators on such records.  backend.log is kept symbolic: a value   *)
(* that involves logarithms is a linear combination of the log(p), with    *)
(* rational coefficients.                                                  *)
(***************************************************************************)
EXTENDS Integers, Sequences, FiniteSets

VARIABLES
    gt,        \* the caller's ground-truth tensor
    pr,        \* the caller's prediction tensor
    kw,        \* the keyword arguments of the call
    backend,   \* the configured backend: data format, epsilon, tensor type
    fn,        \* the function called last ("none" before the first call)
    locals,    \* the called function's local variables at its return
    result     \* the value returned

vars == <<gt, pr, kw, backend, fn, locals, result>>

(***************************************************************************)
(* Bounds of the model.                                                    *)
(***************************************************************************)
\* the largest number of entries B*H*W*C of a tensor with entries in {0, 1}
MaxElems == 3
\* the largest number of entries B*H*W*C of a tensor with entries in {0, 1/2, 1}
MaxSoft == 2
\* backend.epsilon() is 1/EpsDen
EpsDen == 8

(***************************************************************************)
(* Exact rational arithmetic, standing for the floats of the backend.      *)
(* <<0, 0>> is NaN, the result of 0/0.                                     *)
(***************************************************************************)
RECURSIVE GCD(_, _)
GCD(a, b) == IF b = 0 THEN a ELSE GCD(b, a % b)

Abs(n) == IF n < 0 THEN -n ELSE n

NaN == <<0, 0>>

IsNaN(x) == x[2] = 0

Rat(n, d) ==
    IF d = 0 THEN NaN
    ELSE LET g == GCD(Abs(n), Abs(d))
             s == IF d < 0 THEN -1 ELSE 1
         IN  <<s * (n \div g), s * (d \div g)>>

Zero == <<0, 1>>
Half == <<1, 2>>
One == <<1, 1>>
Two == <<2, 1>>

RAdd(x, y) == IF IsNaN(x) \/ IsNaN(y) THEN NaN
              ELSE Rat(x[1] * y[2] + y[1] * x[2], x[2] * y[2])

RSub(x, y) == IF IsNaN(x) \/ IsNaN(y) THEN NaN
              ELSE Rat(x[1] * y[2] - y[1] * x[2], x[2] * y[2])

RMul(x, y) == IF IsNaN(x) \/ IsNaN(y) THEN NaN
              ELSE Rat(x[1] * y[1], x[2] * y[2])

\* x / y; a zero divisor gives NaN (for the inputs drawn a zero divisor only
\* meets a zero dividend)
RDiv(x, y) == IF IsNaN(x) \/ IsNaN(y) THEN NaN
              ELSE Rat(x[1] * y[2], x[2] * y[1])

RNeg(x) == <<-x[1], x[2]>>

\* comparisons; any comparison with NaN is false
RLess(x, y) == ~IsNaN(x) /\ ~IsNaN(y) /\ x[1] * y[2] < y[1] * x[2]
RLeq(x, y) == ~IsNaN(x) /\ ~IsNaN(y) /\ x[1] * y[2] <= y[1] * x[2]

\* x ** k for a natural exponent k
RECURSIVE RPow(_, _)
RPow(x, k) == IF k = 0 THEN One ELSE RMul(x, RPow(x, k - 1))

(***************************************************************************)
(* Values that involve backend.log.  The logarithm is not computed: a      *)
(* value is the linear combination sum of c * log(p), kept as the set of   *)
(* the pairs <<p, c>> of an argument and its coefficient c # 0.  The       *)
(* combination of the single argument NaN stands for NaN.                  *)
(***************************************************************************)
LZero == {}

LNaN == {<<NaN, One>>}

\* c * log(p)
LTerm(c, p) ==
    IF IsNaN(c) \/ IsNaN(p) THEN LNaN
    ELSE IF c = Zero THEN LZero
    ELSE {<<p, c>>}

\* the arguments of a combination, and the coefficient of log(x) in it
Args(a) == {t[1] : t \in a}
Coef(a, x) == IF x \in Args(a) THEN (CHOOSE t \in a : t[1] = x)[2] ELSE Zero

LAdd(a, b) ==
    IF a = LNaN \/ b = LNaN THEN LNaN
    ELSE LET v(x) == RAdd(Coef(a, x), Coef(b, x))
         IN  {<<x, v(x)>> : x \in {y \in Args(a) \cup Args(b) : v(y) # Zero}}

\* k * a, for a number k
LScale(k, a) ==
    IF IsNaN(k) \/ a = LNaN THEN LNaN
    ELSE IF k = Zero THEN LZero
    ELSE {<<t[1], RMul(k, t[2])>> : t \in a}

\* a * k, for a number k
LTimes(a, k) == LScale(k, a)

RECURSIVE LSumOver(_, _)
LSumOver(S, f) ==
    IF S = {} THEN LZero
    ELSE LET x == CHOOSE y \in S : TRUE
         IN  LAdd(f[x], LSumOver(S \ {x}, f))

(***************************************************************************)
(* Tensors.                                                                *)
(***************************************************************************)
RECURSIVE Indices(_)
Indices(shape) ==
    IF shape = <<>> THEN {<<>>}
    ELSE {<<i>> \o r : i \in 1..Head(shape), r \in Indices(Tail(shape))}

RECURSIVE Product(_)
Product(shape) == IF shape = <<>> THEN 1 ELSE Head(shape) * Product(Tail(shape))

\* a Python scalar, as a tensor of rank 0
Scalar(x) == [shape |-> <<>>, data |-> [i \in {<<>>} |-> x]]

\* a Python list of numbers, as a tensor of rank 1
List(xs) == [shape |-> <<Len(xs)>>, data |-> [i \in Indices(<<Len(xs)>>) |-> xs[i[1]]]]

Rank(a) == Len(a.shape)

\* The entry of b that broadcasting pairs with index i of a: b's axes are
\* aligned with the trailing axes of a, and an axis of length 1 is repeated.
BroadcastIndex(a, b, i) ==
    LET off == Rank(a) - Rank(b)
    IN  [k \in 1..Rank(b) |-> IF b.shape[k] = 1 THEN 1 ELSE i[k + off]]

\* x op y for the operators of the tensor expressions: + - * / of numbers,
\* a number times a value with logarithms ("scale") and such a value times a
\* number ("times")
Apply(op, x, y) ==
    CASE op = "+" -> RAdd(x, y)
      [] op = "-" -> RSub(x, y)
      [] op = "*" -> RMul(x, y)
      [] op = "/" -> RDiv(x, y)
      [] op = "scale" -> LScale(x, y)
      [] op = "times" -> LTimes(x, y)

\* a op b elementwise, the operand of lower rank broadcast to the shape of
\* the other
Elementwise(op, a, b) ==
    IF Rank(a) >= Rank(b)
    THEN [shape |-> a.shape,
          data |-> [i \in DOMAIN a.data |->
                      Apply(op, a.data[i], b.data[BroadcastIndex(a, b, i)])]]
    ELSE [shape |-> b.shape,
          data |-> [i \in DOMAIN b.data |->
                      Apply(op, a.data[BroadcastIndex(b, a, i)], b.data[i])]]

Add(a, b) == Elementwise("+", a, b)
Sub(a, b) == Elementwise("-", a, b)
Mul(a, b) == Elementwise("*", a, b)
Div(a, b) == Elementwise("/", a, b)

\* the sum of f[x] over the x of a finite set S
RECURSIVE SumOver(_, _)
SumOver(S, f) ==
    IF S = {} THEN Zero
    ELSE LET x == CHOOSE y \in S : TRUE
         IN  RAdd(f[x], SumOver(S \ {x}, f))

\* the subsequence of s at the positions (0-based axes) not in axes
RECURSIVE DropAxes(_, _, _)
DropAxes(s, axes, k) ==
    IF s = <<>> THEN <<>>
    ELSE (IF k \in axes THEN <<>> ELSE <<Head(s)>>) \o DropAxes(Tail(s), axes, k + 1)

\* backend.sum(a, axis=axes): the axes summed over are removed
Sum(a, axes) ==
    LET shape == DropAxes(a.shape, axes, 0)
    IN  [shape |-> shape,
         data |-> [j \in Indices(shape) |->
                    LET S == {i \in DOMAIN a.data : DropAxes(i, axes, 0) = j}
                    IN  SumOver(S, a.data)]]

\* backend.sum(a, axis=axis, keepdims=True): the axis summed over keeps length 1
SumKeepDims(a, axis) ==
    LET shape == [k \in 1..Rank(a) |-> IF k = axis + 1 THEN 1 ELSE a.shape[k]]
    IN  [shape |-> shape,
         data |-> [j \in Indices(shape) |->
                    LET S == {i \in DOMAIN a.data :
                                \A k \in 1..Rank(a) : k # axis + 1 => i[k] = j[k]}
                    IN  SumOver(S, a.data)]]

\* backend.mean(a, axis=axes)
Mean(a, axes) ==
    LET s == Sum(a, axes)
        n == Product(a.shape) \div Product(s.shape)
    IN  [shape |-> s.shape, data |-> [j \in DOMAIN s.data |-> RDiv(s.data[j], <<n, 1>>)]]

\* backend.mean(a): the mean of all entries, a number
MeanAll(a) ==
    RDiv(SumOver(DOMAIN a.data, a.data), <<Product(a.shape), 1>>)

\* Mutant: a >= t instead of a > t.
GreaterEqual(a, t) == [shape |-> a.shape, data |-> [i \in DOMAIN a.data |-> RLeq(t, a.data[i])]]

\* backend.greater(a, t): elementwise a > t, a boolean tensor
Greater(a, t) == [shape |-> a.shape, data |-> [i \in DOMAIN a.data |-> RLess(t, a.data[i])]]

\* backend.cast(a, backend.floatx()): True becomes 1.0 and False 0.0
Cast(a) == [shape |-> a.shape,
            data |-> [i \in DOMAIN a.data |-> IF a.data[i] THEN One ELSE Zero]]


(***************************************************************************)
(* iou_score and f_score.                                                  *)
(***************************************************************************)
\* threshold=None
None == <<"None">>

\* SMOOTH = 1.
SMOOTH == One

\* if per_image: axes = [1, 2]  else: axes = [0, 1, 2]
Axes(per_image) == IF per_image THEN {1, 2} ELSE {0, 1, 2}

\* if threshold is not None: pr = cast(greater(pr, threshold), floatx())
Threshold(p, threshold) ==
    IF threshold # None THEN Cast(Greater(p, threshold)) ELSE p

\* Mutant: the per-image scores are summed, not averaged.
SumPerImage(score, per_image) ==
    IF per_image THEN Sum(score, {0}) ELSE score

\* if per_image: score = backend.mean(score, axis=0)
MeanPerImage(score, per_image) ==
    IF per_image THEN Mean(score, {0}) ELSE score

\* backend.mean(score * class_weights)
WeightedMean(score, class_weights) == MeanAll(Mul(score, class_weights))

\* Mutant: the intersection is counted twice in the union.
UnionNotReduced(g, p, intersection, axes) == Sum(Add(g, p), axes)

\* union = backend.sum(gt + pr, axis=axes) - intersection
Union(g, p, intersection, axes) == Sub(Sum(Add(g, p), axes), intersection)

\* The local variables of iou_score(gt, pr, **k) at its return statement.
IouScore(g, p0, k) ==
    LET axes == Axes(k.per_image)
        p == Threshold(p0, k.threshold)
        intersection == Sum(Mul(g, p), axes)
        union == Union(g, p, intersection, axes)
        iou1 == Div(Add(intersection, Scalar(k.smooth)), Add(union, Scalar(k.smooth)))
        iou2 == MeanPerImage(iou1, k.per_image)
    IN  [pr |-> p, intersection |-> intersection, union |-> union,
         ratio |-> iou1, score |-> iou2,
         return |-> WeightedMean(iou2, k.class_weights)]

\* fp = backend.sum(pr, axis=axes) - tp
FalsePositives(p, tp, axes) == Sub(Sum(p, axes), tp)

\* fn = backend.sum(gt, axis=axes) - tp
FalseNegatives(g, tp, axes) == Sub(Sum(g, axes), tp)

\* Mutant: beta ** 2 weighs the false positives instead of the false negatives.
FBetaSwapped(tp, fp, fneg, beta, smooth) ==
    LET b2 == Scalar(RPow(beta, 2))
        onePlusB2 == Scalar(RAdd(One, RPow(beta, 2)))
        num == Add(Mul(tp, onePlusB2), Scalar(smooth))
        den == Add(Add(Add(Mul(tp, onePlusB2), Mul(fp, b2)), fneg), Scalar(smooth))
    IN  Div(num, den)

\* score = ((1 + beta ** 2) * tp + smooth)
\*         / ((1 + beta ** 2) * tp + beta ** 2 * fn + fp + smooth)
FBeta(tp, fp, fneg, beta, smooth) ==
    LET b2 == Scalar(RPow(beta, 2))
        onePlusB2 == Scalar(RAdd(One, RPow(beta, 2)))
        num == Add(Mul(tp, onePlusB2), Scalar(smooth))
        den == Add(Add(Add(Mul(tp, onePlusB2), Mul(fneg, b2)), fp), Scalar(smooth))
    IN  Div(num, den)

\* The local variables of f_score(gt, pr, **k) at its return statement.
FScore(g, p0, k) ==
    LET axes == Axes(k.per_image)
        p == Threshold(p0, k.threshold)
        tp == Sum(Mul(g, p), axes)
        fp == FalsePositives(p, tp, axes)
        fneg == FalseNegatives(g, tp, axes)
        score1 == FBeta(tp, fp, fneg, k.beta, k.smooth)
        score2 == MeanPerImage(score1, k.per_image)
    IN  [pr |-> p, tp |-> tp, fp |-> fp, fn |-> fneg,
         ratio |-> score1, score |-> score2,
         return |-> WeightedMean(score2, k.class_weights)]

(***************************************************************************)
(* The backend's operations on tensors of values that involve logarithms.  *)
(***************************************************************************)
\* backend.mean(a) of a tensor of such values
LMeanAll(a) == LScale(<<1, Product(a.shape)>>, LSumOver(DOMAIN a.data, a.data))

\* backend.log(a)
Log(a) == [shape |-> a.shape, data |-> [i \in DOMAIN a.data |-> LTerm(One, a.data[i])]]

\* backend.clip(a, lo, hi): min(max(x, lo), hi) elementwise, NaN stays NaN
Clip(a, lo, hi) ==
    [shape |-> a.shape,
     data |-> [i \in DOMAIN a.data |->
                 LET x == a.data[i]
                 IN  IF IsNaN(x) THEN NaN
                     ELSE IF RLess(x, lo) THEN lo
                     ELSE IF RLess(hi, x) THEN hi
                     ELSE x]]

\* backend.pow(a, gamma)
Pow(a, gamma) == [shape |-> a.shape, data |-> [i \in DOMAIN a.data |-> RPow(a.data[i], gamma)]]

\* - a
Neg(a) == [shape |-> a.shape, data |-> [i \in DOMAIN a.data |-> RNeg(a.data[i])]]

\* 1 - a
OneMinus(a) == [shape |-> a.shape, data |-> [i \in DOMAIN a.data |-> RSub(One, a.data[i])]]

(***************************************************************************)
(* The losses.                                                             *)
(***************************************************************************)
\* backend.epsilon() and 1 - backend.epsilon()
Epsilon(be) == be.epsilon
OneMinusEpsilon(be) == RSub(One, be.epsilon)

\* axis = 3 if backend.image_data_format() == 'channels_last' else 1
ChannelAxis(be) == IF be.image_data_format = "channels_last" THEN 3 ELSE 1

\* The local variables of categorical_crossentropy(gt, pr, **k) at its return;
\* scaled is the value of pr after pr /= backend.sum(pr, axis, keepdims=True).
CategoricalCrossentropy(g, p0, k, be) ==
    LET axis == ChannelAxis(be)
        scaled == Div(p0, SumKeepDims(p0, axis))
        p == Clip(scaled, Epsilon(be), OneMinusEpsilon(be))
        output == Elementwise("times", Elementwise("scale", g, Log(p)), k.class_weights)
    IN  [scaled |-> scaled, pr |-> p, output |-> output,
         return |-> LScale(RNeg(One), LMeanAll(output))]

\* pr /= x divides in place when the tensor type has in-place division (the
\* caller's tensor is the one divided) and rebinds the local name otherwise.
InPlaceDivide(p, scaled, be) == IF be.inplace THEN scaled ELSE p

\* backend.binary_crossentropy(gt, pr): the prediction is clipped to
\* [epsilon, 1 - epsilon] and the entry is -(gt log(pr) + (1 - gt) log(1 - pr))
BackendBinaryCrossentropy(g, p0, be) ==
    LET p == Clip(p0, Epsilon(be), OneMinusEpsilon(be))
    IN  [shape |-> g.shape,
         data |-> [i \in DOMAIN g.data |->
                     LAdd(LTerm(RNeg(g.data[i]), p.data[i]),
                          LTerm(RNeg(RSub(One, g.data[i])), RSub(One, p.data[i])))]]

\* The local variables of bianary_crossentropy(gt, pr, **k) at its return.
BianaryCrossentropy(g, p, k, be) ==
    [return |-> LMeanAll(BackendBinaryCrossentropy(g, p, be))]

\* The local variables of categorical_focal_loss(gt, pr, **k) at its return.
CategoricalFocalLoss(g, p0, k, be) ==
    LET p == Clip(p0, Epsilon(be), OneMinusEpsilon(be))
        cross_entropy == Elementwise("scale", Neg(g), Log(p))
        weight == Mul(Mul(Scalar(k.alpha), g), Pow(OneMinus(p), k.gamma))
        loss == Elementwise("scale", weight, cross_entropy)
    IN  [pr |-> p, cross_entropy |-> cross_entropy, weight |-> weight,
         loss |-> loss, return |-> LMeanAll(loss)]

\* Mutant: the second term is given pr instead of 1 - pr.
FocalLossSamePrediction(g, p, k, be) ==
    LET call1 == CategoricalFocalLoss(g, p, k, be)
        call2 == CategoricalFocalLoss(OneMinus(g), p, k, be)
    IN  [l1 |-> call1.return, l2 |-> call2.return, loss1 |-> call1.loss,
         loss2 |-> call2.loss, return |-> LAdd(call1.return, call2.return)]

\* The local variables of focal_loss(gt, pr, **k) at its return; loss1 and
\* loss2 are the elementwise losses of its two calls.
FocalLoss(g, p, k, be) ==
    LET call1 == CategoricalFocalLoss(g, p, k, be)
        call2 == CategoricalFocalLoss(OneMinus(g), OneMinus(p), k, be)
    IN  [l1 |-> call1.return, l2 |-> call2.return, loss1 |-> call1.loss,
         loss2 |-> call2.loss, return |-> LAdd(call1.return, call2.return)]

(***************************************************************************)
(* The inputs drawn.                                                       *)
(***************************************************************************)
\* the shapes (B, H, W, C) of at most n entries
Shapes(n) == {s \in [1..4 -> 1..n] : Product(s) <= n}

\* the tensors of a shape with entries in Vals
Tensors(shape, Vals) ==
    {[shape |-> shape, data |-> d] : d \in [Indices(shape) -> Vals]}

\* the lists of n numbers of Vals
Lists(n, Vals) == {List(xs) : xs \in [1..n -> Vals]}

\* the keyword arguments' defaults in the signatures
Defaults ==
    [class_weights |-> Scalar(One), smooth |-> SMOOTH, per_image |-> TRUE,
     threshold |-> None, beta |-> One, gamma |-> 2, alpha |-> <<1, 4>>]

\* the backend as configured by default
DefaultBackend ==
    [image_data_format |-> "channels_last", epsilon |-> <<1, EpsDen>>,
     inplace |-> FALSE]

NoLocals == [return |-> None]

(***************************************************************************)
(* The calls.  A call leaves the caller's tensors as the function leaves   *)
(* them and records the function's locals and the value returned.          *)
(***************************************************************************)
CallIouScore ==
    /\ fn' = "iou_score"
    /\ locals' = IouScore(gt, pr, kw)
    /\ result' = locals'.return
    /\ UNCHANGED <<gt, pr, kw, backend>>

CallFScore ==
    /\ fn' = "f_score"
    /\ locals' = FScore(gt, pr, kw)
    /\ result' = locals'.return
    /\ UNCHANGED <<gt, pr, kw, backend>>

NextScore == CallIouScore \/ CallFScore

CallCategoricalCrossentropy ==
    /\ fn' = "categorical_crossentropy"
    /\ locals' = CategoricalCrossentropy(gt, pr, kw, backend)
    /\ result' = locals'.return
    /\ pr' = InPlaceDivide(pr, locals'.scaled, backend)
    /\ UNCHANGED <<gt, kw, backend>>

CallBianaryCrossentropy ==
    /\ fn' = "bianary_crossentropy"
    /\ locals' = BianaryCrossentropy(gt, pr, kw, backend)
    /\ result' = locals'.return
    /\ UNCHANGED <<gt, pr, kw, backend>>

CallCategoricalFocalLoss ==
    /\ fn' = "categorical_focal_loss"
    /\ locals' = CategoricalFocalLoss(gt, pr, kw, backend)
    /\ result' = locals'.return
    /\ UNCHANGED <<gt, pr, kw, backend>>

CallFocalLoss ==
    /\ fn' = "focal_loss"
    /\ locals' = FocalLoss(gt, pr, kw, backend)
    /\ result' = locals'.return
    /\ UNCHANGED <<gt, pr, kw, backend>>

NextFocal == CallCategoricalFocalLoss \/ CallFocalLoss

NextLibrary ==
    \/ CallIouScore
    \/ CallFScore
    \/ CallCategoricalCrossentropy
    \/ CallBianaryCrossentropy
    \/ CallCategoricalFocalLoss
    \/ CallFocalLoss

\* Both tensors all 1s, class_weights = 1, no threshold.
InitOnes ==
    /\ \E s \in Shapes(MaxElems) :
          /\ gt \in Tensors(s, {One})
          /\ pr \in Tensors(s, {One})
    /\ \E sm \in {Zero, Half, One, Two}, b \in {Zero, Half, One, Two}, pi \in BOOLEAN :
          kw = [Defaults EXCEPT !.smooth = sm, !.beta = b, !.per_image = pi]
    /\ backend = DefaultBackend
    /\ fn = "none"
    /\ locals = NoLocals
    /\ result = None

SpecOnes == InitOnes /\ [][NextScore]_vars

\* Predictions rounded at a threshold or not, soft ground truth.
InitThreshold ==
    /\ \E s \in Shapes(MaxSoft) :
          /\ gt \in Tensors(s, {Zero, Half, One})
          /\ pr \in Tensors(s, {Zero, Half, One})
    /\ \E t \in {None, Zero, Half}, pi \in BOOLEAN :
          kw = [Defaults EXCEPT !.threshold = t, !.per_image = pi]
    /\ backend = DefaultBackend
    /\ fn = "none"
    /\ locals = NoLocals
    /\ result = None

SpecThreshold == InitThreshold /\ [][NextScore]_vars

\* Binary tensors, every reduction, several beta and smooth.
InitBinary ==
    /\ \E s \in Shapes(MaxElems) :
          /\ gt \in Tensors(s, {Zero, One})
          /\ pr \in Tensors(s, {Zero, One})
    /\ \E pi \in BOOLEAN, b \in {One, Two}, sm \in {Half, One} :
          kw = [Defaults EXCEPT !.per_image = pi, !.beta = b, !.smooth = sm]
    /\ backend = DefaultBackend
    /\ fn = "none"
    /\ locals = NoLocals
    /\ result = None

SpecBinary == InitBinary /\ [][NextScore]_vars

\* Binary ground truth, predictions binary as given or once rounded.
InitCounts ==
    /\ \E s \in Shapes(MaxSoft) :
          /\ gt \in Tensors(s, {Zero, One})
          /\ pr \in Tensors(s, {Zero, Half, One})
    /\ \E pi \in BOOLEAN, t \in {None, Half}, b \in {One, Two}, sm \in {Half, One} :
          kw = [Defaults EXCEPT !.per_image = pi, !.threshold = t, !.beta = b,
                                !.smooth = sm]
    /\ backend = DefaultBackend
    /\ fn = "none"
    /\ locals = NoLocals
    /\ result = None

SpecCounts == InitCounts /\ [][NextScore]_vars

\* class_weights the scalar 1 or a list of C weights.
InitWeights ==
    /\ \E s \in Shapes(MaxSoft) :
          /\ gt \in Tensors(s, {Zero, Half, One})
          /\ pr \in Tensors(s, {Zero, Half, One})
          /\ \E w \in {Scalar(One)} \cup Lists(s[4], {Half, One, Two}),
                pi \in BOOLEAN, t \in {None} :
                kw = [Defaults EXCEPT !.class_weights = w, !.per_image = pi,
                                      !.threshold = t]
    /\ backend = DefaultBackend
    /\ fn = "none"
    /\ locals = NoLocals
    /\ result = None

SpecWeights == InitWeights /\ [][NextScore]_vars

\* Soft and binary labels, several gamma and alpha.
InitFocal ==
    /\ \E s \in Shapes(MaxSoft) :
          /\ gt \in Tensors(s, {Zero, Half, One})
          /\ pr \in Tensors(s, {Zero, Half, One})
    /\ \E g \in {1, 2}, a \in {<<1, 4>>, One} :
          kw = [Defaults EXCEPT !.gamma = g, !.alpha = a]
    /\ backend = DefaultBackend
    /\ fn = "none"
    /\ locals = NoLocals
    /\ result = None

SpecFocal == InitFocal /\ [][NextFocal]_vars

\* Every function of the library, on either tensor type and data format.
InitLibrary ==
    /\ \E s \in Shapes(MaxSoft) :
          /\ gt \in Tensors(s, {Zero, One})
          /\ pr \in Tensors(s, {Half, One})
    /\ kw = Defaults
    /\ \E f \in {"channels_last", "channels_first"}, ip \in BOOLEAN :
          backend = [DefaultBackend EXCEPT !.image_data_format = f, !.inplace = ip]
    /\ fn = "none"
    /\ locals = NoLocals
    /\ result = None

SpecLibrary == InitLibrary /\ [][NextLibrary]_vars

(***************************************************************************)
(* The claims about iou_score and f_score.                                 *)
(***************************************************************************)
Scores == {"iou_score", "f_score"}

AllOnes(a) == \A i \in DOMAIN a.data : a.data[i] = One

Binary(a) == \A i \in DOMAIN a.data : a.data[i] \in {Zero, One}

\* C1: for gt and pr all 1s, class_weights = 1, no threshold and smooth >= 0,
\* iou_score and f_score return exactly 1, for every shape, every beta and
\* either value of per_image.
C1_OnesScoreOne ==
    (/\ fn \in Scores
     /\ AllOnes(gt) /\ AllOnes(pr)
     /\ kw.class_weights = Scalar(One)
     /\ kw.threshold = None
     /\ RLeq(Zero, kw.smooth))
    => result = One

C1_Witness ==
    /\ fn = "f_score"
    /\ AllOnes(gt) /\ AllOnes(pr)
    /\ gt.shape[1] > 1
    /\ kw.smooth = Zero /\ kw.beta = Two /\ ~kw.per_image
    /\ result = One

\* C2: iou_score returns a value in [0, 1] for entries in [0, 1], smooth > 0
\* and class_weights the scalar 1 or a list of C weights.
C2_IouInUnitRange ==
    (fn = "iou_score" /\ RLess(Zero, kw.smooth))
    => (RLeq(Zero, result) /\ RLeq(result, One))

\* C3: f_score returns a value in [0, 1] for entries in [0, 1], smooth > 0
\* and class_weights the scalar 1 or a list of C weights.
C3_FScoreInUnitRange ==
    (fn = "f_score" /\ RLess(Zero, kw.smooth))
    => (RLeq(Zero, result) /\ RLeq(result, One))

\* pr' of the claim: 1 where pr > t, otherwise 0
Binarized(p, t) ==
    [shape |-> p.shape,
     data |-> [i \in DOMAIN p.data |->
                 IF p.data[i][1] * t[2] > t[1] * p.data[i][2] THEN One ELSE Zero]]

\* C4: with threshold = t the scores are those of a call without threshold on
\* the prediction binarized by pr > t (an entry equal to t becomes 0), gt is
\* not thresholded; with threshold None the prediction is used unrounded.
C4_ThresholdBinarizes ==
    /\ (fn \in Scores /\ kw.threshold = None) => locals.pr = pr
    /\ (fn \in Scores /\ kw.threshold # None) =>
          /\ locals.pr = Binarized(pr, kw.threshold)
          /\ fn = "iou_score" =>
                result = IouScore(gt, Binarized(pr, kw.threshold),
                                  [kw EXCEPT !.threshold = None]).return
          /\ fn = "f_score" =>
                result = FScore(gt, Binarized(pr, kw.threshold),
                                [kw EXCEPT !.threshold = None]).return

C4_Witness ==
    /\ fn = "iou_score"
    /\ kw.threshold = Half
    /\ \E i \in DOMAIN pr.data : pr.data[i] = Half /\ locals.pr.data[i] = Zero
    /\ \E i \in DOMAIN pr.data : pr.data[i] = One /\ locals.pr.data[i] = One
    /\ \E i \in DOMAIN gt.data : gt.data[i] = Half

\* the sum of the list's weights, and of the weighted per-class scores
WeightSum(w) == SumOver(DOMAIN w.data, w.data)
WeightedScoreSum(score, w) == WeightSum(Mul(score, w))

\* C5: the result is the weighted mean over classes of the per-class scores
\* with class_weights as the weights, so that equal weights for every channel
\* give the result of class_weights = 1.
C5_WeightedMeanOverClasses ==
    (fn \in Scores /\ Rank(kw.class_weights) = 1) =>
        /\ result = RDiv(WeightedScoreSum(locals.score, kw.class_weights),
                         WeightSum(kw.class_weights))
        /\ (\A i \in DOMAIN kw.class_weights.data :
                kw.class_weights.data[i] = kw.class_weights.data[<<1>>])
           => result = MeanAll(locals.score)

\* the positions of class c in image b, or in the whole batch for b = 0
Positions(a, b, c) == {i \in DOMAIN a.data : i[4] = c /\ (b = 0 \/ i[1] = b)}

\* (intersection + smooth) / (union + smooth) over the positions P
RatioIou(g, p, P, smooth) ==
    LET i == SumOver(P, [x \in P |-> RMul(g.data[x], p.data[x])])
        u == RSub(RAdd(SumOver(P, g.data), SumOver(P, p.data)), i)
    IN  RDiv(RAdd(i, smooth), RAdd(u, smooth))

\* the F-beta ratio of tp, fp, fn summed over the positions P
RatioF(g, p, P, beta, smooth) ==
    LET tp == SumOver(P, [x \in P |-> RMul(g.data[x], p.data[x])])
        fp == RSub(SumOver(P, p.data), tp)
        fneg == RSub(SumOver(P, g.data), tp)
        b2 == RMul(beta, beta)
        num == RAdd(RMul(RAdd(One, b2), tp), smooth)
    IN  RDiv(num, RAdd(RAdd(RAdd(RMul(RAdd(One, b2), tp), RMul(b2, fneg)), fp), smooth))

RatioOf(P) ==
    IF fn = "iou_score" THEN RatioIou(gt, locals.pr, P, kw.smooth)
    ELSE RatioF(gt, locals.pr, P, kw.beta, kw.smooth)

\* the arithmetic mean over the B images of each image's own ratio of class c
MeanOfImages(c) ==
    LET B == gt.shape[1]
    IN  RDiv(SumOver(1..B, [b \in 1..B |-> RatioOf(Positions(gt, b, c))]), <<B, 1>>)

\* C6: with per_image = True the per-class score is the mean over the images
\* of each image's own ratio, from sums over (H, W) only; with per_image =
\* False it is one ratio of the sums over the whole batch; for B = 1 both
\* settings return the same value.
C6_PerImageReduction ==
    fn \in Scores =>
        /\ kw.per_image =>
              locals.score = [shape |-> <<gt.shape[4]>>,
                              data |-> [j \in Indices(<<gt.shape[4]>>) |->
                                          MeanOfImages(j[1])]]
        /\ ~kw.per_image =>
              locals.score = [shape |-> <<gt.shape[4]>>,
                              data |-> [j \in Indices(<<gt.shape[4]>>) |->
                                          RatioOf(Positions(gt, 0, j[1]))]]
        /\ gt.shape[1] = 1 =>
              /\ fn = "iou_score" =>
                    result = IouScore(gt, pr, [kw EXCEPT !.per_image = ~@]).return
              /\ fn = "f_score" =>
                    result = FScore(gt, pr, [kw EXCEPT !.per_image = ~@]).return

\* a batch of two images whose mean of ratios is not the ratio of the batch
C6_Witness ==
    /\ fn = "iou_score"
    /\ kw.per_image
    /\ gt.shape[1] = 2
    /\ locals.score.data[<<1>>] = MeanOfImages(1)
    /\ locals.score.data[<<1>>] # RatioOf(Positions(gt, 0, 1))

\* the positions reduced into entry j of the per-class score
Reduced(j) ==
    IF kw.per_image THEN Positions(gt, j[1], j[2]) ELSE Positions(gt, 0, j[1])

\* the number of positions of P with gt = g and pr = p (after thresholding)
Count(P, g, p) == Cardinality({i \in P : gt.data[i] = g /\ locals.pr.data[i] = p})

\* ((1 + b2) tp + smooth) / ((1 + b2) tp + b2 fn + fp + smooth) of counts
FBetaOfCounts(tp, fp, fneg, b2, smooth) ==
    RDiv(RAdd(RMul(RAdd(One, b2), <<tp, 1>>), smooth),
         RAdd(RAdd(RAdd(RMul(RAdd(One, b2), <<tp, 1>>), RMul(b2, <<fneg, 1>>)),
                   <<fp, 1>>), smooth))

\* C10: for binary gt and pr, tp, fp and fn are the counts of the positions
\* with (gt, pr) = (1, 1), (0, 1) and (1, 0) over the reduction axes, never
\* negative; the per-class score is the F-beta ratio of these counts; and for
\* beta = 1 it is the Dice coefficient (2 tp + smooth) / (sum gt + sum pr + smooth).
C10_FBetaOfCounts ==
    (fn = "f_score" /\ Binary(gt) /\ Binary(locals.pr)) =>
        /\ DOMAIN locals.ratio.data =
              Indices(IF kw.per_image THEN <<gt.shape[1], gt.shape[4]>>
                      ELSE <<gt.shape[4]>>)
        /\ \A j \in DOMAIN locals.ratio.data :
              LET tp == Count(Reduced(j), One, One)
                  fp == Count(Reduced(j), Zero, One)
                  fneg == Count(Reduced(j), One, Zero)
              IN  /\ locals.tp.data[j] = <<tp, 1>>
                  /\ locals.fp.data[j] = <<fp, 1>>
                  /\ locals.fn.data[j] = <<fneg, 1>>
                  /\ locals.ratio.data[j] =
                        FBetaOfCounts(tp, fp, fneg, RMul(kw.beta, kw.beta), kw.smooth)
                  /\ kw.beta = One =>
                        locals.ratio.data[j] =
                           RDiv(RAdd(<<2 * tp, 1>>, kw.smooth),
                                RAdd(<<(tp + fneg) + (tp + fp), 1>>, kw.smooth))

C10_Witness ==
    /\ fn = "f_score"
    /\ kw.beta = Two
    /\ kw.threshold = Half
    /\ \E i \in DOMAIN pr.data : gt.data[i] = One /\ pr.data[i] = Half
    /\ \E j \in DOMAIN locals.ratio.data :
          /\ Count(Reduced(j), One, One) = 1
          /\ Count(Reduced(j), Zero, One) = 0
          /\ Count(Reduced(j), One, Zero) = 1
          /\ locals.ratio.data[j] =
                RDiv(RAdd(<<5, 1>>, kw.smooth), RAdd(<<9, 1>>, kw.smooth))

(***************************************************************************)
(* The claims about the losses.                                            *)
(***************************************************************************)
\* x clipped to [epsilon, 1 - epsilon]
Clipped(x) ==
    LET lo == backend.epsilon
        hi == RSub(One, backend.epsilon)
    IN  IF RLess(x, lo) THEN lo ELSE IF RLess(hi, x) THEN hi ELSE x

\* - alpha * g * (1 - p') ** gamma * log(p') for p' the clipped p
FocalTerm(g, p) ==
    LTerm(RNeg(RMul(RMul(kw.alpha, g), RPow(RSub(One, Clipped(p)), kw.gamma))),
          Clipped(p))

\* C7: categorical_focal_loss(gt, pr) is -mean(alpha gt (1 - pr')^gamma
\* log(pr')) with pr' the clipped pr, for every gt with entries in [0, 1]:
\* each element's contribution is linear in its gt value.
C7_FocalLinearInGt ==
    fn = "categorical_focal_loss" =>
        result = LScale(<<1, Product(gt.shape)>>,
                        LSumOver(DOMAIN gt.data,
                                 [i \in DOMAIN gt.data |->
                                    FocalTerm(gt.data[i], pr.data[i])]))

\* alpha * epsilon ** gamma * (- log(1 - epsilon))
ClippingResidue ==
    LTerm(RNeg(RMul(kw.alpha, RPow(backend.epsilon, kw.gamma))),
          RSub(One, backend.epsilon))

\* C8: focal_loss(gt, pr) is categorical_focal_loss(gt, pr) +
\* categorical_focal_loss(1 - gt, 1 - pr), and for binary gt every element of
\* focal_loss(gt, gt) contributes the clipping residue alpha epsilon^gamma
\* (-log(1 - epsilon)) and nothing larger.
C8_FocalLossOfItself ==
    fn = "focal_loss" =>
        /\ result = LAdd(CategoricalFocalLoss(gt, pr, kw, backend).return,
                         CategoricalFocalLoss(OneMinus(gt), OneMinus(pr), kw,
                                              backend).return)
        /\ (Binary(gt) /\ pr = gt) =>
              /\ \A i \in DOMAIN gt.data :
                    LAdd(locals.loss1.data[i], locals.loss2.data[i]) = ClippingResidue
              /\ result = ClippingResidue

C8_Witness ==
    /\ fn = "focal_loss"
    /\ pr = gt
    /\ \E i \in DOMAIN gt.data : gt.data[i] = One /\ locals.loss1.data[i] = ClippingResidue
    /\ \E i \in DOMAIN gt.data : gt.data[i] = Zero /\ locals.loss2.data[i] = ClippingResidue
    /\ result = ClippingResidue

\* C9: every function is pure with respect to its tensor arguments: after any
\* call the caller's gt and pr hold the values they held before the call.
C9_CallsArePure == [][gt' = gt /\ pr' = pr]_vars

=============================================================================
